---- MODULE Spec2Model ----
(***************************************************************************)
(* GitHubImageHost (src/imagehost/githubimagehost.cpp): an image host that *)
(* stores images in a GitHub repository through the Contents API.          *)
(*                                                                         *)
(* Strings (QString, QByteArray) are sequences of atoms; an atom stands    *)
(* for one character or for one fixed run of characters of a literal.      *)
(* The empty string is <<>>.  tr() is taken without a translator loaded:   *)
(* it yields its source text.                                              *)
(*                                                                         *)
(* Every public method is one call of the single-threaded client.  A call  *)
(* that blocks in vte::NetworkAccess is split at each blocking request:    *)
(* the step that sends the request, and the step that takes the reply and  *)
(* runs the handler up to its next request or its return.  Between the two *)
(* the remote repository may be changed by other writers.                  *)
(*                                                                         *)
(* The three Q_ASSERTs state what the code takes for granted: create()     *)
(* guarantees the one of createResource, the caller of remove() the one of *)
(* remove (Remove is called with owned URLs only), and a reply without     *)
(* error to a contents request carries a non-empty JSON object.            *)
(***************************************************************************)
EXTENDS Integers, Sequences, FiniteSets, TLC

(* Number of distinct content SHAs the remote repository can show. *)
MaxSha == 2

----------------------------------------------------------------------------
(* Strings *)

startsWith(s, p) ==
    /\ Len(p) <= Len(s)
    /\ SubSeq(s, 1, Len(p)) = p

mid(s, n) == SubSeq(s, n + 1, Len(s))

isEmpty(s) == Len(s) = 0

(* QString::fromUtf8: a byte that is no valid UTF-8 decodes to U+FFFD. *)
fromUtf8(b) == [i \in DOMAIN b |-> IF b[i] = "\\xFF" THEN "U+FFFD" ELSE b[i]]

B64Alphabet ==
    << "A","B","C","D","E","F","G","H","I","J","K","L","M","N","O","P",
       "Q","R","S","T","U","V","W","X","Y","Z","a","b","c","d","e","f",
       "g","h","i","j","k","l","m","n","o","p","q","r","s","t","u","v",
       "w","x","y","z","0","1","2","3","4","5","6","7","8","9","+","/" >>

B64(i) == B64Alphabet[i + 1]

(* QByteArray::toBase64 over a sequence of bytes 0..255. *)
RECURSIVE toBase64(_)
toBase64(d) ==
    IF Len(d) = 0 THEN <<>>
    ELSE IF Len(d) = 1 THEN
        << B64(d[1] \div 4), B64((d[1] % 4) * 16), "=", "=" >>
    ELSE IF Len(d) = 2 THEN
        << B64(d[1] \div 4), B64((d[1] % 4) * 16 + d[2] \div 16),
           B64((d[2] % 16) * 4), "=" >>
    ELSE
        << B64(d[1] \div 4), B64((d[1] % 4) * 16 + d[2] \div 16),
           B64((d[2] % 16) * 4 + d[3] \div 64), B64(d[3] % 64) >>
        \o toBase64(SubSeq(d, 4, Len(d)))

----------------------------------------------------------------------------
(* JSON.  An object is a function from keys to values; a value is a string *)
(* or an object whose members are strings.                                 *)

EmptyObj == [k \in {} |-> <<>>]

JStr(s) == [kind |-> "string", str |-> s, obj |-> EmptyObj]

JObj(o) == [kind |-> "object", str |-> <<>>, obj |-> o]

(* The keys in the order QJsonObject keeps them (sorted). *)
KeyOrder == << "content", "download_url", "message", "sha" >>

Quote(s) == <<"\"">> \o s \o <<"\"">>

RECURSIVE SerStrMembers(_, _, _)
SerStrMembers(o, i, first) ==
    IF i > Len(KeyOrder) THEN <<>>
    ELSE IF KeyOrder[i] \in DOMAIN o
         THEN (IF first THEN <<>> ELSE <<",">>)
              \o Quote(<<KeyOrder[i]>>) \o <<":">> \o Quote(o[KeyOrder[i]])
              \o SerStrMembers(o, i + 1, FALSE)
         ELSE SerStrMembers(o, i + 1, first)

SerValue(v) ==
    IF v.kind = "string" THEN Quote(v.str)
    ELSE <<"{">> \o SerStrMembers(v.obj, 1, TRUE) \o <<"}">>

RECURSIVE SerMembers(_, _, _)
SerMembers(o, i, first) ==
    IF i > Len(KeyOrder) THEN <<>>
    ELSE IF KeyOrder[i] \in DOMAIN o
         THEN (IF first THEN <<>> ELSE <<",">>)
              \o Quote(<<KeyOrder[i]>>) \o <<":">> \o SerValue(o[KeyOrder[i]])
              \o SerMembers(o, i + 1, FALSE)
         ELSE SerMembers(o, i + 1, first)

(* Utils::toJsonString: the compact text of an object. *)
toJsonString(o) == <<"{">> \o SerMembers(o, 1, TRUE) \o <<"}">>

(* QJsonValue::toString of obj[key]: the string, or empty when the member  *)
(* is missing or is no string.                                             *)
jsonString(o, key) ==
    IF key \in DOMAIN o /\ o[key].kind = "string" THEN o[key].str ELSE <<>>

(* obj[key].toObject().value(inner).toString() *)
jsonInnerString(o, key, inner) ==
    IF key \in DOMAIN o /\ o[key].kind = "object" /\ inner \in DOMAIN o[key].obj
    THEN o[key].obj[inner]
    ELSE <<>>

----------------------------------------------------------------------------
(* Configuration *)

c_apiUrl == <<"https://api.github.com">>

Tokens == { <<>>, <<"t">> }
Owners == { <<>>, <<"alice">>, <<"bob">> }
Repos  == { <<>>, <<"notes">>, <<"pics">> }

ConfigKeys == { "personal_access_token", "user_name", "repository_name" }

(* The configuration objects handed to setConfig and testConfig: all keys  *)
(* present (a value may be empty), or keys missing.                        *)
JsonConfigs ==
    { [k \in ConfigKeys |-> CASE k = "personal_access_token" -> t
                              [] k = "user_name" -> u
                              [] OTHER -> r] :
        t \in Tokens, u \in Owners, r \in Repos }
    \cup { [k \in {} |-> <<>>],
           [k \in ConfigKeys \ {"personal_access_token"} |->
               IF k = "user_name" THEN <<"alice">> ELSE <<"notes">>] }

configString(jobj, key) == IF key \in DOMAIN jobj THEN jobj[key] ELSE <<>>

parseConfig(jobj) ==
    [ token    |-> configString(jobj, "personal_access_token"),
      userName |-> configString(jobj, "user_name"),
      repoName |-> configString(jobj, "repository_name") ]

imageUrlPrefix(userName, repoName) ==
    <<"https://raw.githubusercontent.com/">> \o userName \o <<"/">>
        \o repoName \o <<"/master/">>

----------------------------------------------------------------------------
(* Requests *)

authorizationHeader(p_token) == << "Authorization", <<"token ">> \o p_token >>

acceptHeader == << "Accept", <<"application/vnd.github.v3+json">> >>

prepareCommonHeaders(p_token) == << authorizationHeader(p_token), acceptHeader >>

Request(method, urlStr, rawHeader, requestData) ==
    [ method |-> method, url |-> urlStr, headers |-> rawHeader,
      body |-> requestData ]

repoUrl(p_userName, p_repoName) ==
    c_apiUrl \o <<"/repos/">> \o p_userName \o <<"/">> \o p_repoName

(* The request of getRepoInfo. *)
getRepoInfo(p_token, p_userName, p_repoName) ==
    Request("GET", repoUrl(p_userName, p_repoName),
            prepareCommonHeaders(p_token), <<>>)

contentsUrl(userName, repoName, path) ==
    c_apiUrl \o <<"/repos/">> \o userName \o <<"/">> \o repoName
        \o <<"/contents/">> \o path

createRequestData(p_content, p_path) ==
    toJsonString( "message" :> JStr(<<"VX_ADD: ">> \o p_path)
               @@ "content" :> JStr(toBase64(p_content)) )

deleteRequestData(resourcePath, sha) ==
    toJsonString( "message" :> JStr(<<"VX_DEL: ">> \o resourcePath)
               @@ "sha" :> JStr(sha) )

(* WebUtils::purifyUrl: percent-decoding of the path. *)
purifyUrl(p_url) == [i \in DOMAIN p_url |-> IF p_url[i] = "%20" THEN " " ELSE p_url[i]]

(* vte::NetworkReply::errorStr *)
errorStr(m_error) == <<m_error>>

----------------------------------------------------------------------------
(* Messages *)

MsgEmptyConfig ==
    <<"PersonalAccessToken/UserName/RepositoryName should not be empty.">>

MsgEmptyPath == <<"Failed to create image with empty path.">>

MsgInvalidConfig == <<"Invalid GitHub image host configuration.">>

MsgExists(p_path) ==
    <<"The resource already exists at the image host (">> \o p_path \o <<").">>

MsgQueryFailed(urlStr, reply) ==
    <<"Failed to query the resource at the image host (">> \o urlStr
        \o <<") (">> \o errorStr(reply.m_error) \o <<") (">>
        \o fromUtf8(reply.m_data) \o <<").">>

MsgCreateFailed(urlStr, reply) ==
    <<"Failed to create resource at the image host (">> \o urlStr
        \o <<") (">> \o errorStr(reply.m_error) \o <<") (">>
        \o fromUtf8(reply.m_data) \o <<").">>

MsgFetchInfoFailed(resourcePath) ==
    <<"Failed to fetch information about the resource (">> \o resourcePath
        \o <<").">>

MsgFetchShaFailed(resourcePath, reply) ==
    <<"Failed to fetch SHA about the resource (">> \o resourcePath
        \o <<") (">> \o fromUtf8(reply.m_data) \o <<").">>

MsgDeleteFailed(resourcePath, reply) ==
    <<"Failed to delete resource (">> \o resourcePath \o <<") (">>
        \o fromUtf8(reply.m_data) \o <<").">>

----------------------------------------------------------------------------
(* The remote side: the Contents API of one repository, alice/notes. *)

Shas == { <<ToString(i)>> : i \in 1..MaxSha }

RepoOwner == <<"alice">>
RepoName == <<"notes">>
RemotePaths == { <<"a", "/", "b.png">>, <<"img.png">> }

(* Paths and image URLs the callers use. *)
CreatePaths == RemotePaths \cup { <<>> }
UrlPaths == RemotePaths \cup { <<"my", "%20", "img.png">> }
ResourcePaths == { purifyUrl(p) : p \in UrlPaths }
Contents == { <<>>, <<77, 97>> }
CallerMsgs == { <<>>, <<"previous message">> }

Urls ==
    { imageUrlPrefix(u, r) \o p :
        u \in Owners \ {<<>>}, r \in {RepoName}, p \in UrlPaths }
    \cup { <<"https://example.com/", "x.png">> }

ShaObj(s) == "sha" :> JStr(s)
MessageObj == "message" :> JStr(<<"Bad credentials">>)
CreatedObj(d, s) == "content" :> JObj("download_url" :> d @@ "sha" :> s)
CreatedNoUrlObj(s) == "content" :> JObj("sha" :> s)

DownloadUrls(p) ==
    { imageUrlPrefix(RepoOwner, RepoName) \o p, <<"https://cdn.example/">> \o p }

JsonUniverse ==
    { ShaObj(s) : s \in Shas \cup {<<>>} }
    \cup { MessageObj }
    \cup { CreatedNoUrlObj(s) : s \in Shas }
    \cup UNION { { CreatedObj(d, s) : d \in DownloadUrls(p) } :
                 p \in RemotePaths, s \in Shas }
    \cup { "message" :> JStr(<<"VX_DEL: ">> \o p) @@ "sha" :> JStr(s) :
             p \in ResourcePaths, s \in Shas }

(* Utils::fromJsonString: the object a text is the compact form of, the    *)
(* empty object when the text is no object.                                *)
fromJsonString(text) ==
    LET m == { o \in JsonUniverse : toJsonString(o) = text }
    IN  IF m = {} THEN EmptyObj ELSE CHOOSE o \in m : TRUE

Reply(m_error, m_data) == [ m_error |-> m_error, m_data |-> m_data ]

NotFoundBody == <<"Not Found">>

RepoInfoReplies ==
    { Reply(e, d) :
        e \in { "NoError", "ContentNotFoundError", "ConnectionRefusedError" },
        d \in { <<>>, toJsonString(MessageObj), <<"\\xFF">> } }

remotePath(urlStr) ==
    { p \in RemotePaths : contentsUrl(RepoOwner, RepoName, p) = urlStr }

----------------------------------------------------------------------------
(* State *)

VARIABLES
    m_personalAccessToken,  \* the fields of GitHubImageHost
    m_userName,
    m_repoName,
    m_imageUrlPrefix,
    remote,     \* the repository: path -> SHA of its content, <<>> if absent
    pc,         \* where the client is: "idle", or blocked in a request
    op,         \* the method running, or the last method that returned
    arg,        \* its arguments
    retBool,    \* the value returned by ready, ownsUrl, testConfig, remove
    retUrl,     \* the value returned by create
    p_msg,      \* the message parameter of the call
    sent,       \* the requests the call has sent, in order
    got,        \* the replies the call has received, in order
    commits     \* the changes the call's requests made to the repository

vars == << m_personalAccessToken, m_userName, m_repoName, m_imageUrlPrefix,
           remote, pc, op, arg, retBool, retUrl, p_msg, sent, got, commits >>

config == << m_personalAccessToken, m_userName, m_repoName, m_imageUrlPrefix >>

Args(jobj, data, path, url, msg) ==
    [ jobj |-> jobj, data |-> data, path |-> path, url |-> url, msg |-> msg ]

NoArgs == Args(EmptyObj, <<>>, <<>>, <<>>, <<>>)

Init ==
    /\ m_personalAccessToken = <<>>
    /\ m_userName = <<>>
    /\ m_repoName = <<>>
    /\ m_imageUrlPrefix = <<>>
    /\ remote \in [RemotePaths -> Shas \cup {<<>>}]
    /\ pc = "idle"
    /\ op = "none"
    /\ arg = NoArgs
    /\ retBool = FALSE
    /\ retUrl = <<>>
    /\ p_msg = <<>>
    /\ sent = <<>>
    /\ got = <<>>
    /\ commits = <<>>

(* ready without the test of the token. *)
ready_noToken ==
    /\ ~isEmpty(m_userName)
    /\ ~isEmpty(m_repoName)

ready ==
    /\ ~isEmpty(m_personalAccessToken)
    /\ ~isEmpty(m_userName)
    /\ ~isEmpty(m_repoName)

ownsUrl(p_url) == startsWith(p_url, m_imageUrlPrefix)

(* What setConfig leaves in m_imageUrlPrefix. *)
setConfigPrefix(userName, repoName) == imageUrlPrefix(userName, repoName)

(* testConfig asking about the active configuration. *)
testConfigRequest_active(c) ==
    getRepoInfo(m_personalAccessToken, m_userName, m_repoName)

(* The request testConfig sends for a candidate configuration. *)
testConfigRequest(c) == getRepoInfo(c.token, c.userName, c.repoName)

(* create without the test of ready(). *)
createCheck_noReady(p_path) ==
    IF isEmpty(p_path) THEN "empty_path" ELSE "query"

(* create and createResource up to the first request. *)
createCheck(p_path) ==
    IF isEmpty(p_path) THEN "empty_path"
    ELSE IF ~ready THEN "not_ready"
    ELSE "query"

(* remove up to the first request. *)
removeCheck == IF ~ready THEN "not_ready" ELSE "query"

(* remove cutting one character too few off the URL. *)
resourcePathOf_short(p_url) == purifyUrl(mid(p_url, Len(m_imageUrlPrefix) - 1))

resourcePathOf(p_url) == purifyUrl(mid(p_url, Len(m_imageUrlPrefix)))

contentsUrlOf(path) == contentsUrl(m_userName, m_repoName, path)

(* createResource taking every failed query for "not found". *)
createOnQuery_anyError(reply) ==
    IF reply.m_error = "NoError" THEN "exists" ELSE "put"

(* createResource on the reply to the existence query. *)
createOnQuery(reply) ==
    IF reply.m_error = "NoError" THEN "exists"
    ELSE IF reply.m_error # "ContentNotFoundError" THEN "query_failed"
    ELSE "put"

(* createResource falling back to the URL it expects the resource at. *)
createTargetUrl_fallback(reply) ==
    LET u == jsonInnerString(fromJsonString(reply.m_data), "content",
                             "download_url")
    IN  IF reply.m_error # "NoError" \/ isEmpty(u)
        THEN m_imageUrlPrefix \o arg.path
        ELSE u

(* createResource on the reply to the PUT: the URL it returns. *)
createTargetUrl(reply) ==
    IF reply.m_error # "NoError" THEN <<>>
    ELSE jsonInnerString(fromJsonString(reply.m_data), "content", "download_url")

(* remove on the reply to the SHA query. *)
removeSha(reply) == jsonString(fromJsonString(reply.m_data), "sha")

(* remove without the test of the SHA. *)
removeOnQuery_noShaTest(reply) ==
    IF reply.m_error # "NoError" THEN "fetch_failed" ELSE "delete"

removeOnQuery(reply) ==
    IF reply.m_error # "NoError" THEN "fetch_failed"
    ELSE IF isEmpty(removeSha(reply)) THEN "no_sha"
    ELSE "delete"

(* remove naming the image URL, not the path, in the commit message. *)
removeRequest_url(urlStr, resourcePath, sha) ==
    Request("DELETE", urlStr, prepareCommonHeaders(m_personalAccessToken),
            deleteRequestData(arg.url, sha))

(* The request remove sends to delete. *)
removeRequest(urlStr, resourcePath, sha) ==
    Request("DELETE", urlStr, prepareCommonHeaders(m_personalAccessToken),
            deleteRequestData(resourcePath, sha))

----------------------------------------------------------------------------
(* What the remote side answers *)

(* GET of a contents URL: the SHA of the resource or "not found", or a     *)
(* failure, or an object that lacks a usable "sha".                        *)
ContentsGetReplies(urlStr) ==
    ( IF \E p \in remotePath(urlStr) : remote[p] # <<>>
      THEN { Reply("NoError", toJsonString(ShaObj(remote[p]))) :
               p \in remotePath(urlStr) }
      ELSE { Reply("ContentNotFoundError", NotFoundBody) } )
    \cup { Reply("ConnectionRefusedError", <<>>),
           Reply("NoError", toJsonString(MessageObj)),
           Reply("NoError", toJsonString(ShaObj(<<>>))) }

Outcome(reply, newRemote, changes) ==
    [ reply |-> reply, remote |-> newRemote, changes |-> changes ]

Change(p, s) == [ path |-> p, from |-> remote[p], to |-> s ]

(* PUT without a SHA: creates the resource if it is absent (the answer may *)
(* be lost, or lack the download URL), and is refused otherwise.           *)
PutOutcomes(req) ==
    UNION { { Outcome(r, [remote EXCEPT ![p] = s], <<Change(p, s)>>) :
                r \in { Reply("NoError", toJsonString(CreatedObj(d, s))) :
                          d \in DownloadUrls(p) }
                      \cup { Reply("NoError", toJsonString(CreatedNoUrlObj(s))),
                             Reply("TimeoutError", <<>>) } } :
            p \in { q \in remotePath(req.url) : remote[q] = <<>> },
            s \in Shas }
    \cup { Outcome(r, remote, <<>>) :
             r \in { Reply("ConnectionRefusedError", <<>>),
                     Reply("ContentConflictError", toJsonString(MessageObj)) } }

(* DELETE: removes the resource if the SHA of the request is the current   *)
(* one (the answer may be lost), and is refused otherwise.                 *)
DeleteOutcomes(req) ==
    LET sha == jsonString(fromJsonString(req.body), "sha")
        hit == { p \in remotePath(req.url) : remote[p] # <<>> /\ remote[p] = sha }
    IN  UNION { { Outcome(r, [remote EXCEPT ![p] = <<>>], <<Change(p, <<>>)>>) :
                    r \in { Reply("NoError", toJsonString(MessageObj)),
                            Reply("TimeoutError", <<>>) } } :
                p \in hit }
        \cup { Outcome(Reply("ConnectionRefusedError", <<>>), remote, <<>>) }
        \cup ( IF hit = {}
               THEN { Outcome(Reply("ContentConflictError",
                                    toJsonString(MessageObj)), remote, <<>>) }
               ELSE {} )

----------------------------------------------------------------------------
(* Calls *)

Begin(name, a) ==
    /\ pc = "idle"
    /\ op' = name
    /\ arg' = a
    /\ got' = <<>>
    /\ commits' = <<>>

Return == pc' = "idle"

setConfig(p_jobj) ==
    LET c == parseConfig(p_jobj) IN
    /\ Begin("setConfig", Args(p_jobj, <<>>, <<>>, <<>>, <<>>))
    /\ m_personalAccessToken' = c.token
    /\ m_userName' = c.userName
    /\ m_repoName' = c.repoName
    /\ m_imageUrlPrefix' = setConfigPrefix(c.userName, c.repoName)
    /\ Return
    /\ retBool' = FALSE /\ retUrl' = <<>> /\ p_msg' = <<>> /\ sent' = <<>>
    /\ UNCHANGED remote

Ready ==
    /\ Begin("ready", NoArgs)
    /\ retBool' = ready
    /\ Return
    /\ retUrl' = <<>> /\ p_msg' = <<>> /\ sent' = <<>>
    /\ UNCHANGED << config, remote >>

OwnsUrl(p_url) ==
    /\ Begin("ownsUrl", Args(EmptyObj, <<>>, <<>>, p_url, <<>>))
    /\ retBool' = ownsUrl(p_url)
    /\ Return
    /\ retUrl' = <<>> /\ p_msg' = <<>> /\ sent' = <<>>
    /\ UNCHANGED << config, remote >>

testConfig(p_jobj, msg) ==
    LET c == parseConfig(p_jobj) IN
    /\ Begin("testConfig", Args(p_jobj, <<>>, <<>>, <<>>, msg))
    /\ IF isEmpty(c.token) \/ isEmpty(c.userName) \/ isEmpty(c.repoName)
       THEN /\ p_msg' = MsgEmptyConfig
            /\ retBool' = FALSE
            /\ sent' = <<>>
            /\ Return
       ELSE /\ p_msg' = <<>>
            /\ retBool' = FALSE
            /\ sent' = << testConfigRequest(c) >>
            /\ pc' = "testConfig_request"
    /\ retUrl' = <<>>
    /\ UNCHANGED << config, remote >>

testConfigReply ==
    /\ pc = "testConfig_request"
    /\ \E reply \in RepoInfoReplies :
         /\ got' = Append(got, reply)
         /\ p_msg' = fromUtf8(reply.m_data)
         /\ retBool' = (reply.m_error = "NoError")
    /\ Return
    /\ UNCHANGED << config, remote, op, arg, retUrl, sent, commits >>

create(p_data, p_path, msg) ==
    /\ Begin("create", Args(EmptyObj, p_data, p_path, <<>>, msg))
    /\ retUrl' = <<>>
    /\ retBool' = FALSE
    /\ CASE createCheck(p_path) = "empty_path" ->
              /\ p_msg' = MsgEmptyPath
              /\ sent' = <<>>
              /\ Return
         [] createCheck(p_path) = "not_ready" ->
              /\ p_msg' = MsgInvalidConfig
              /\ sent' = <<>>
              /\ Return
         [] OTHER ->
              /\ p_msg' = msg
              /\ sent' = << Request("GET", contentsUrlOf(p_path),
                                    prepareCommonHeaders(m_personalAccessToken),
                                    <<>>) >>
              /\ pc' = "create_query"
    /\ UNCHANGED << config, remote >>

createQueryReply ==
    LET urlStr == contentsUrlOf(arg.path) IN
    /\ pc = "create_query"
    /\ \E reply \in ContentsGetReplies(urlStr) :
         /\ got' = Append(got, reply)
         /\ CASE createOnQuery(reply) = "exists" ->
                   /\ p_msg' = MsgExists(arg.path)
                   /\ Return
                   /\ UNCHANGED sent
              [] createOnQuery(reply) = "query_failed" ->
                   /\ p_msg' = MsgQueryFailed(urlStr, reply)
                   /\ Return
                   /\ UNCHANGED sent
              [] OTHER ->
                   /\ sent' = Append(sent,
                          Request("PUT", urlStr,
                                  prepareCommonHeaders(m_personalAccessToken),
                                  createRequestData(arg.data, arg.path)))
                   /\ pc' = "create_put"
                   /\ UNCHANGED p_msg
    /\ UNCHANGED << config, remote, op, arg, retBool, retUrl, commits >>

createPutReply ==
    LET urlStr == contentsUrlOf(arg.path) IN
    /\ pc = "create_put"
    /\ \E out \in PutOutcomes(sent[Len(sent)]) :
         /\ remote' = out.remote
         /\ commits' = commits \o out.changes
         /\ got' = Append(got, out.reply)
         /\ retUrl' = createTargetUrl(out.reply)
         /\ p_msg' = IF isEmpty(createTargetUrl(out.reply))
                     THEN MsgCreateFailed(urlStr, out.reply)
                     ELSE p_msg
    /\ Return
    /\ UNCHANGED << config, op, arg, retBool, sent >>

remove(p_url, msg) ==
    /\ ownsUrl(p_url)
    /\ Begin("remove", Args(EmptyObj, <<>>, <<>>, p_url, msg))
    /\ retBool' = FALSE
    /\ retUrl' = <<>>
    /\ IF removeCheck = "not_ready"
       THEN /\ p_msg' = MsgInvalidConfig
            /\ sent' = <<>>
            /\ Return
       ELSE /\ p_msg' = msg
            /\ sent' = << Request("GET", contentsUrlOf(resourcePathOf(p_url)),
                                  prepareCommonHeaders(m_personalAccessToken),
                                  <<>>) >>
            /\ pc' = "remove_query"
    /\ UNCHANGED << config, remote >>

removeQueryReply ==
    LET resourcePath == resourcePathOf(arg.url)
        urlStr == contentsUrlOf(resourcePath)
    IN
    /\ pc = "remove_query"
    /\ \E reply \in ContentsGetReplies(urlStr) :
         /\ got' = Append(got, reply)
         /\ CASE removeOnQuery(reply) = "fetch_failed" ->
                   /\ p_msg' = MsgFetchInfoFailed(resourcePath)
                   /\ Return
                   /\ UNCHANGED sent
              [] removeOnQuery(reply) = "no_sha" ->
                   /\ p_msg' = MsgFetchShaFailed(resourcePath, reply)
                   /\ Return
                   /\ UNCHANGED sent
              [] OTHER ->
                   /\ sent' = Append(sent,
                          removeRequest(urlStr, resourcePath, removeSha(reply)))
                   /\ pc' = "remove_delete"
                   /\ UNCHANGED p_msg
    /\ UNCHANGED << config, remote, op, arg, retBool, retUrl, commits >>

removeDeleteReply ==
    LET resourcePath == resourcePathOf(arg.url) IN
    /\ pc = "remove_delete"
    /\ \E out \in DeleteOutcomes(sent[Len(sent)]) :
         /\ remote' = out.remote
         /\ commits' = commits \o out.changes
         /\ got' = Append(got, out.reply)
         /\ retBool' = (out.reply.m_error = "NoError")
         /\ p_msg' = IF out.reply.m_error # "NoError"
                     THEN MsgDeleteFailed(resourcePath, out.reply)
                     ELSE p_msg
    /\ Return
    /\ UNCHANGED << config, op, arg, retUrl, sent >>

(* Another writer of the repository creates, changes or deletes a file. *)
OtherWriter ==
    /\ \E p \in RemotePaths, s \in Shas \cup {<<>>} :
         /\ s # remote[p]
         /\ remote' = [remote EXCEPT ![p] = s]
    /\ UNCHANGED << config, pc, op, arg, retBool, retUrl, p_msg, sent, got,
                    commits >>

Next ==
    \/ \E j \in JsonConfigs : setConfig(j)
    \/ Ready
    \/ \E u \in Urls : OwnsUrl(u)
    \/ \E j \in JsonConfigs, m \in CallerMsgs : testConfig(j, m)
    \/ testConfigReply
    \/ \E d \in Contents, p \in CreatePaths, m \in CallerMsgs : create(d, p, m)
    \/ createQueryReply
    \/ createPutReply
    \/ \E u \in Urls, m \in CallerMsgs : remove(u, m)
    \/ removeQueryReply
    \/ removeDeleteReply
    \/ OtherWriter

Spec == Init /\ [][Next]_vars

----------------------------------------------------------------------------
(* Properties *)

Returned(name) == pc = "idle" /\ op = name

ConfigReady ==
    m_personalAccessToken # <<>> /\ m_userName # <<>> /\ m_repoName # <<>>

InvalidConfigText == <<"Invalid GitHub image host configuration.">>

ShaIn(reply) == jsonString(fromJsonString(reply.m_data), "sha")

HasPut == \E i \in DOMAIN sent : sent[i].method = "PUT"

(* C1: createResource never overwrites.  A PUT is sent only as the second  *)
(* request of a create, to the URL of the existence GET, after that GET    *)
(* returned "not found".  If the GET returned no error the call has failed *)
(* with "The resource already exists at the image host ({path})." and sent *)
(* no PUT; if it returned any other error the call has failed and sent no  *)
(* PUT.                                                                    *)
C1_NoOverwrite ==
    /\ \A i \in DOMAIN sent :
         sent[i].method = "PUT" =>
           /\ op = "create"
           /\ i = 2
           /\ sent[1].method = "GET"
           /\ sent[1].url = sent[2].url
           /\ Len(got) >= 1
           /\ got[1].m_error = "ContentNotFoundError"
    /\ op = "create" /\ Len(got) >= 1 /\ got[1].m_error = "NoError" =>
         /\ pc = "idle"
         /\ retUrl = <<>>
         /\ p_msg = <<"The resource already exists at the image host (">>
                      \o arg.path \o <<").">>
         /\ ~HasPut
    /\ op = "create" /\ Len(got) >= 1
         /\ got[1].m_error \notin {"NoError", "ContentNotFoundError"} =>
         /\ pc = "idle"
         /\ retUrl = <<>>
         /\ ~HasPut

C1_Witness ==
    /\ Returned("create")
    /\ Len(got) = 1
    /\ got[1].m_error = "NoError"
    /\ \E p \in RemotePaths : p = arg.path /\ remote[p] # <<>>

(* C2: remove sends the DELETE only as its second request, to the URL of   *)
(* the SHA GET, after that GET returned no error and a body with a         *)
(* non-empty "sha".  If the GET failed, or its body has no "sha" or an     *)
(* empty one, the call has returned false and sent no DELETE.              *)
C2_DeleteNeedsSha ==
    /\ \A i \in DOMAIN sent :
         sent[i].method = "DELETE" =>
           /\ op = "remove"
           /\ i = 2
           /\ sent[1].method = "GET"
           /\ sent[1].url = sent[2].url
           /\ Len(got) >= 1
           /\ got[1].m_error = "NoError"
           /\ ShaIn(got[1]) # <<>>
    /\ op = "remove" /\ Len(got) >= 1
         /\ (got[1].m_error # "NoError" \/ ShaIn(got[1]) = <<>>) =>
         /\ pc = "idle"
         /\ retBool = FALSE
         /\ Len(sent) = 1

C2_Witness ==
    /\ Returned("remove")
    /\ Len(got) = 1
    /\ got[1].m_error = "NoError"
    /\ "sha" \notin DOMAIN fromJsonString(got[1].m_data)
    /\ retBool = FALSE

(* C3: whenever ownsUrl(u) has returned, in any state of the client, the   *)
(* one before the first setConfig included, its value is true iff u starts *)
(* with https://raw.githubusercontent.com/{owner}/{repo}/master/ of the    *)
(* owner and repository held at that moment.                               *)
C3_OwnsUrlIffPrefix ==
    Returned("ownsUrl") =>
        ( retBool <=>
            startsWith(arg.url,
                       <<"https://raw.githubusercontent.com/">> \o m_userName
                         \o <<"/">> \o m_repoName \o <<"/master/">>) )

(* C4: failed preconditions send nothing.  create with an empty path       *)
(* returns an empty URL and "Failed to create image with empty path.",     *)
(* ready or not; create with a non-empty path, and remove of an owned URL, *)
(* called while not ready, fail with "Invalid GitHub image host            *)
(* configuration."; none of them sends a request.                          *)
C4_PreconditionsNoRequest ==
    /\ op = "create" /\ arg.path = <<>> =>
         /\ pc = "idle"
         /\ retUrl = <<>>
         /\ p_msg = <<"Failed to create image with empty path.">>
         /\ sent = <<>>
    /\ op = "create" /\ arg.path # <<>> /\ ~ConfigReady =>
         /\ pc = "idle"
         /\ retUrl = <<>>
         /\ p_msg = InvalidConfigText
         /\ sent = <<>>
    /\ op = "remove" /\ ~ConfigReady =>
         /\ pc = "idle"
         /\ retBool = FALSE
         /\ p_msg = InvalidConfigText
         /\ sent = <<>>

C4_Witness ==
    /\ Returned("create")
    /\ arg.path # <<>>
    /\ m_personalAccessToken = <<>>
    /\ m_userName # <<>>
    /\ m_repoName # <<>>
    /\ p_msg = InvalidConfigText
    /\ sent = <<>>

CandidateOf(jobj) ==
    [ token    |-> IF "personal_access_token" \in DOMAIN jobj
                   THEN jobj["personal_access_token"] ELSE <<>>,
      userName |-> IF "user_name" \in DOMAIN jobj
                   THEN jobj["user_name"] ELSE <<>>,
      repoName |-> IF "repository_name" \in DOMAIN jobj
                   THEN jobj["repository_name"] ELSE <<>> ]

C5_State ==
    op = "testConfig" =>
      LET c == CandidateOf(arg.jobj) IN
      IF c.token = <<>> \/ c.userName = <<>> \/ c.repoName = <<>>
      THEN /\ pc = "idle"
           /\ retBool = FALSE
           /\ p_msg = <<"PersonalAccessToken/UserName/RepositoryName should not be empty.">>
           /\ sent = <<>>
      ELSE /\ Len(sent) = 1
           /\ sent[1].method = "GET"
           /\ sent[1].url = <<"https://api.github.com", "/repos/">>
                              \o c.userName \o <<"/">> \o c.repoName
           /\ sent[1].headers[1] = << "Authorization", <<"token ">> \o c.token >>
           /\ pc = "idle" =>
                /\ Len(got) = 1
                /\ retBool = (got[1].m_error = "NoError")
                /\ p_msg = fromUtf8(got[1].m_data)

C5_Step == op' = "testConfig" => UNCHANGED config

(* C5: testConfig judges the candidate configuration.  With an empty field *)
(* it returns false with "PersonalAccessToken/UserName/RepositoryName      *)
(* should not be empty." and sends nothing; otherwise it sends exactly one *)
(* GET to /repos/{owner}/{repo} of the candidate with the candidate's      *)
(* token, returns whether the transport reported no error, and leaves the  *)
(* text of the response body in the message either way.  No step of the    *)
(* call changes the active configuration or the URL prefix.                *)
C5_TestConfigCandidate == []C5_State /\ [][C5_Step]_vars

C5_Witness ==
    /\ Returned("testConfig")
    /\ Len(got) = 1
    /\ got[1].m_error # "NoError"
    /\ got[1].m_data # <<>>
    /\ CandidateOf(arg.jobj).userName # m_userName
    /\ m_userName # <<>>
    /\ p_msg = fromUtf8(got[1].m_data)

AliceNotes ==
    /\ m_personalAccessToken = <<"t">>
    /\ m_userName = <<"alice">>
    /\ m_repoName = <<"notes">>

ABPath == <<"a", "/", "b.png">>

ABDownloadUrl ==
    <<"https://raw.githubusercontent.com/", "alice", "/", "notes", "/master/">>
        \o ABPath

ABContentsUrl ==
    <<"https://api.github.com", "/repos/", "alice", "/", "notes", "/contents/">>
        \o ABPath

(* C6: with token "t", owner "alice" and repository "notes" configured,    *)
(* ready() returns true; create of "a/b.png" whose existence GET returned  *)
(* "not found" and whose PUT succeeded returns the content.download_url of *)
(* the response; ownsUrl of                                                *)
(* https://raw.githubusercontent.com/alice/notes/master/a/b.png is true;   *)
(* remove of that URL sends its requests to the contents URL of "a/b.png"  *)
(* that create uses, and returns true when the SHA GET returned a SHA and  *)
(* the DELETE succeeded.                                                   *)
C6_CreateThenDelete ==
    AliceNotes =>
      /\ Returned("ready") => retBool = TRUE
      /\ op = "create" /\ arg.path = ABPath =>
           /\ \A i \in DOMAIN sent : sent[i].url = ABContentsUrl
           /\ \A d \in DownloadUrls(ABPath), s \in Shas :
                ( /\ Len(got) = 2
                  /\ got[1].m_error = "ContentNotFoundError"
                  /\ got[2] = Reply("NoError", toJsonString(CreatedObj(d, s))) )
                => Returned("create") /\ retUrl = d
      /\ Returned("ownsUrl") /\ arg.url = ABDownloadUrl => retBool = TRUE
      /\ op = "remove" /\ arg.url = ABDownloadUrl =>
           /\ Len(sent) >= 1
           /\ \A i \in DOMAIN sent : sent[i].url = ABContentsUrl
           /\ ( /\ Len(got) = 2
                /\ got[1].m_error = "NoError"
                /\ ShaIn(got[1]) # <<>>
                /\ got[2].m_error = "NoError" )
              => Returned("remove") /\ retBool = TRUE

C6_Witness ==
    /\ AliceNotes
    /\ Returned("remove")
    /\ arg.url = ABDownloadUrl
    /\ retBool = TRUE
    /\ Len(sent) = 2
    /\ sent[2].method = "DELETE"
    /\ sent[2].url = ABContentsUrl
    /\ remote[ABPath] = <<>>

(* C7: testConfig, create and remove never return failure with an empty   *)
(* message.                                                                *)
C7_FailureHasMessage ==
    /\ (Returned("testConfig") \/ Returned("remove")) /\ retBool = FALSE =>
         p_msg # <<>>
    /\ Returned("create") /\ retUrl = <<>> => p_msg # <<>>

(* C8: ready() returns true iff the token, the user name and the           *)
(* repository name are all non-empty, and sends no request.                *)
C8_ReadyIffAllSet ==
    Returned("ready") =>
      /\ retBool <=> ( /\ m_personalAccessToken # <<>>
                       /\ m_userName # <<>>
                       /\ m_repoName # <<>> )
      /\ sent = <<>>
      /\ got = <<>>

C8_Witness ==
    /\ Returned("ready")
    /\ retBool = FALSE
    /\ m_personalAccessToken = <<>>
    /\ m_userName # <<>>
    /\ m_repoName # <<>>

DeleteBodyText(path, sha) ==
    << "{", "\"", "message", "\"", ":", "\"", "VX_DEL: " >> \o path
      \o << "\"", ",", "\"", "sha", "\"", ":", "\"" >> \o sha \o << "\"", "}" >>

(* C9: remove sends one GET and then at most one DELETE and nothing else;  *)
(* the DELETE goes to the URL of the GET with the body                     *)
(* {"message":"VX_DEL: {path}","sha":"{sha}"} where sha is the one the GET *)
(* returned, whatever the repository holds by then.                        *)
C9_ReadThenDelete ==
    op = "remove" =>
      /\ Len(sent) <= 2
      /\ Len(sent) >= 1 => sent[1].method = "GET"
      /\ Len(sent) = 2 =>
           /\ sent[2].method = "DELETE"
           /\ sent[2].url = sent[1].url
           /\ Len(got) >= 1
           /\ \E p \in ResourcePaths :
                /\ sent[1].url = <<"https://api.github.com", "/repos/">>
                                   \o m_userName \o <<"/">> \o m_repoName
                                   \o <<"/contents/">> \o p
                /\ sent[2].body = DeleteBodyText(p, ShaIn(got[1]))

(* The race: the DELETE went out with the SHA that was read, another       *)
(* writer had changed the resource in between, and the delete failed.      *)
C9_Witness ==
    /\ Returned("remove")
    /\ Len(sent) = 2
    /\ Len(got) = 2
    /\ \E p \in RemotePaths :
         /\ sent[2].body = DeleteBodyText(p, ShaIn(got[1]))
         /\ remote[p] # <<>>
         /\ remote[p] # ShaIn(got[1])
    /\ got[2].m_error = "ContentConflictError"
    /\ retBool = FALSE

(* C10 as claimed: a create that returned an empty URL changed nothing in  *)
(* the repository, and a create that returned a URL created exactly one    *)
(* resource at its path.                                                   *)
C10_CommitOnlyOnSuccess ==
    Returned("create") =>
      /\ retUrl = <<>> => commits = <<>>
      /\ retUrl # <<>> =>
           /\ Len(commits) = 1
           /\ commits[1].path = arg.path
           /\ commits[1].from = <<>>
           /\ commits[1].to # <<>>

(* C10 amended: a create changes the repository by its one PUT only.  A    *)
(* create that returned an empty URL without having sent the PUT changed   *)
(* nothing; a create that returned a URL created exactly one resource at   *)
(* its path; a create that sent the PUT created at most that resource,     *)
(* also when it returned an empty URL.                                     *)
C10_CommitOnlyByPut ==
    op = "create" =>
      /\ Len(commits) <= 1
      /\ \A i \in DOMAIN commits :
           /\ HasPut
           /\ commits[i].path = arg.path
           /\ commits[i].from = <<>>
           /\ commits[i].to # <<>>
      /\ Returned("create") /\ retUrl = <<>> /\ ~HasPut => commits = <<>>
      /\ Returned("create") /\ retUrl # <<>> => Len(commits) = 1

C10_Witness ==
    /\ Returned("create")
    /\ retUrl # <<>>
    /\ Len(commits) = 1
    /\ commits[1].path = arg.path
    /\ remote[arg.path] = commits[1].to

====
